---- MODULE Spec2Model ----
(***************************************************************************)
(* webterm: session lifecycle and I/O relay engine.                        *)
(*                                                                         *)
(* The module models                                                       *)
(*   - terminal.Manager (registry, CreateSession, TerminateSession,        *)
(*     cleanupSession, the background sweep, Shutdown),                    *)
(*   - terminal.SessionRunner (Stop, the two retried pumps, monitorProcess,*)
(*     handleErrors),                                                      *)
(*   - terminal.CleanupManager / PipeManager (PTY, process, pipe files),   *)
(*   - websocket.Hub, OutputWatcher and Client (register, broadcast, the   *)
(*     client pumps, Stop/shutdown) and the WebSocket handler,             *)
(*   - handlers.SessionHandler.ListSessions on top of the Manager.         *)
(*                                                                         *)
(* A session object lives on the heap: the Runner's tasks keep a pointer   *)
(* to it after the Manager has dropped it from its registry.  Hence        *)
(* `session` (the objects) and `sessions` (the keys of Manager.sessions)   *)
(* are separate variables.                                                 *)
(*                                                                         *)
(* Time is abstract: a sleep, a ticker or a timeout is a step that may be  *)
(* taken at any moment after it has been armed.                            *)
(***************************************************************************)
EXTENDS Integers, Sequences, FiniteSets, TLC

----------------------------------------------------------------------------
(* Bounds of the model *)

MaxSessions == 1

MaxCreated == 2

MaxLog == 2

MaxSweeps == 1

MaxShutdownCalls == 2

MaxClients == 2

MaxFrames == 1

(* Program constants *)

maxRetries == 3

\* main calls Hub.Stop on the signal and once more when it returns.
hubStopCalls == 2

\* Session identifiers: uuid.New never returns the same identifier twice.
Ids == 1..MaxCreated

ClientIds == 1..MaxClients

----------------------------------------------------------------------------
VARIABLES
    (* terminal.Manager *)
    nextId,          \* the next fresh session identifier (uuid.New)
    session,         \* heap: id -> types.Session
    sessions,        \* keys of Manager.sessions
    sessionRunners,  \* keys of Manager.sessionRunners
    statusCallback,  \* Manager.statusCallback # nil
    callbacks,       \* calls of the status callback, in order
    mpc,             \* holder of Manager.mutex and its position
    timers,          \* id -> pending delayed removals (cleanupSession)
    shutdownOnce,    \* Manager.shutdownOnce has fired
    shutdownCalls,   \* calls of Manager.Shutdown so far
    stopChan,        \* number of close(Manager.stopChan)
    sweeps,          \* sweep visits so far
    ret,             \* result of the last Manager call that returned
    termProc,        \* id -> state of the process when Terminate was accepted
    (* terminal.SessionRunner, per session *)
    runner,
    (* operating system *)
    os,              \* id -> child process and PTY
    files,           \* paths present in the pipes directory
    outputLog,       \* id -> length of the output file
    outputFile,      \* id -> content of the output file: positions in the PTY stream
    ptyOut,          \* id -> bytes the pump has read from the PTY so far
    (* the process *)
    panic,           \* the unrecovered panic that ended the process, if any
    (* websocket.Hub *)
    hub,             \* position of Hub.Run and the event it handles
    clients,         \* Hub.clients: session id -> set of clients
    outputWatchers,  \* Hub.outputWatchers: session id -> watcher
    inputWriters,    \* keys of Hub.inputWriters
    hubStopChan,     \* number of close(Hub.stopChan)
    watchers,        \* heap: the OutputWatcher objects, in creation order
    main,            \* calls of Hub.Stop by main and the position in Stop
    (* websocket.Client, per connection *)
    client,          \* heap: the Client objects
    cpc,             \* position of the handler and of the two pumps
    sent,            \* what the Hub handed to and what reached each client
    (* the HTTP API *)
    listed           \* the last Manager.ListSessions and what its caller made of it

mvars == <<nextId, session, sessions, sessionRunners, statusCallback,
           callbacks, mpc, timers, shutdownOnce, shutdownCalls, stopChan,
           sweeps, ret, termProc, runner, os, files, outputLog, outputFile, ptyOut>>

hvars == <<hub, clients, outputWatchers, inputWriters, hubStopChan, watchers,
           main, client, cpc, sent>>

avars == <<listed>>

vars == <<mvars, panic, hvars, avars>>

----------------------------------------------------------------------------
(* types.Session *)

NoSession ==
    [Status |-> "none", PTY |-> FALSE, Process |-> FALSE, ErrorMessage |-> ""]

IsActive(s) == s.Status = "starting" \/ s.Status = "running"

CanTerminateStopped(s) == s.Status \in {"starting", "running", "stopped"}

CanTerminate(s) == s.Status = "starting" \/ s.Status = "running"

\* The paths CreateSessionPipes derives from the identifier:
\* <pipesDir>/<id>.input and <pipesDir>/<id>.output.
InputPipe(id) == <<id, "input">>

OutputFileShared(id) == <<0, "output">>

OutputFile(id) == <<id, "output">>

(* terminal.SessionRunner *)

NoRunner ==
    [stopped |-> 0, stopChanCloses |-> 0, statusCallback |-> FALSE,
     retryCount |-> 0, inRetry |-> 0, errorChan |-> <<>>,
     pty |-> "none", inp |-> "none", mon |-> "none", err |-> "none"]

NewSessionRunner(cb) ==
    [NoRunner EXCEPT !.statusCallback = cb]

\* Start spawns the four tasks.
RunnerStarted(r) ==
    [r EXCEPT !.pty = "top", !.inp = "top", !.mon = "wait", !.err = "run"]

RunnerStopAgain(r) == [r EXCEPT !.stopped = 1, !.stopChanCloses = @ + 1]

\* Stop: the compare-and-swap lets the first caller close stopChan; the wait
\* for the tasks is bounded by a timeout, so Stop returns whether or not the
\* tasks have finished.
RunnerStop(r) ==
    IF r.stopped = 0
    THEN [r EXCEPT !.stopped = 1, !.stopChanCloses = @ + 1]
    ELSE r

(* websocket.Client *)

NoClient == [sessionID |-> 0, send |-> "nil", conn |-> FALSE, event |-> <<>>]

\* NewClient: the queue `send` is made without a buffer.
NewClient(s) == [sessionID |-> s, send |-> "open", conn |-> TRUE, event |-> <<>>]

\* Client.SendMessage, sendError and handlePingMessage offer a message to the
\* queue: it is taken when a receiver is waiting, the queue is closed when
\* none is, and offering to a closed queue panics.
SendMessage(send, receiver) ==
    IF send = "closed" THEN "panic"
    ELSE IF receiver THEN "delivered" ELSE "closed"

\* The queue after such an offer that did not panic.
AfterSend(send, receiver) ==
    IF SendMessage(send, receiver) = "closed" THEN "closed" ELSE send

\* Client.Close closes the queue, whatever its state.
Close(send) == IF send = "closed" THEN "panic" ELSE "closed"

\* The conversion of a frame's int dimension to the uint16 of SessionResize.
ToUint16(n) == n % 65536

(* websocket.OutputWatcher *)

NewWatcher(s) ==
    [sessionID |-> s, lastPosition |-> 0, stopChan |-> 0, pc |-> "watch"]

\* What the Hub did for a client: the size of the output file when the client
\* was registered, the bytes broadcasts offered to its queue, the bytes its
\* write pump took from the queue, and the other messages it took; and what
\* its read pump read: the frames that are malformed or of a type the server
\* does not handle from a client, and the pings; and whether registerClient
\* refused it for want of its session.
NoSent ==
    [regSize |-> 0, handed |-> <<>>, delivered |-> <<>>, notices |-> <<>>,
     rejected |-> 0, pings |-> 0, refused |-> FALSE]

\* An unrecovered panic, by the function it happens in; it ends the process.
NoPanic == <<>>

Panic(site, msg) == <<site, msg>>

\* No ListSessions has been called.
NoList ==
    [pc |-> "none", refs |-> {}, at |-> [i \in {} |-> NoSession],
     copy |-> [i \in {} |-> NoSession]]

Idle == [op |-> "idle", step |-> "", id |-> 0]

Locked(op, step, id) == [op |-> op, step |-> step, id |-> id]

\* What a call of the Manager returned: the operation, its session, the result.
Ret(op, id, res) == [op |-> op, id |-> id, res |-> res]

----------------------------------------------------------------------------
Init ==
    /\ nextId = 1
    /\ session = [i \in Ids |-> NoSession]
    /\ sessions = {}
    /\ sessionRunners = {}
    /\ statusCallback = FALSE
    /\ callbacks = <<>>
    /\ mpc = Idle
    /\ timers = [i \in Ids |-> 0]
    /\ shutdownOnce = FALSE
    /\ shutdownCalls = 0
    /\ stopChan = 0
    /\ sweeps = 0
    /\ ret = Ret("none", 0, "none")
    /\ termProc = [i \in Ids |-> "none"]
    /\ runner = [i \in Ids |-> NoRunner]
    /\ os = [i \in Ids |-> [proc |-> "none", ptyOpen |-> FALSE, ptyCloses |-> 0]]
    /\ files = {}
    /\ outputLog = [i \in Ids |-> 0]
    /\ outputFile = [i \in Ids |-> <<>>]
    /\ ptyOut = [i \in Ids |-> 0]
    /\ panic = NoPanic
    /\ hub = [pc |-> "run", arg |-> 0]
    /\ clients = [s \in {} |-> {}]
    /\ outputWatchers = [s \in {} |-> 0]
    /\ inputWriters = {}
    /\ hubStopChan = 0
    /\ watchers = <<>>
    /\ main = [stops |-> 0, pc |-> "idle"]
    /\ client = [c \in ClientIds |-> NoClient]
    /\ cpc = [c \in ClientIds |-> [h |-> "none", w |-> "none", r |-> "none"]]
    /\ sent = [c \in ClientIds |-> NoSent]
    /\ listed = NoList

----------------------------------------------------------------------------
(* terminal.PipeManager, terminal.CleanupManager *)

SessionPipes(id) == {InputPipe(id), OutputFile(id)}

CreateSessionPipes(id, dir) == dir \cup SessionPipes(id)

RollbackNone(id, dir) == dir

\* CreateSessionPipes when the output file cannot be made: the FIFO it has
\* just made is removed again.
Rollback(id, dir) == dir \ {InputPipe(id)}

\* The pipes directory after a CreateSessionPipes that meets `fault`: Mkfifo
\* fails before anything is made; the output file fails after the FIFO was
\* made; or nothing fails.
PipesAfter(id, dir, fault) ==
    CASE fault = "mkfifo" -> dir
      [] fault = "output" -> Rollback(id, dir \cup {InputPipe(id)})
      [] OTHER -> CreateSessionPipes(id, dir)

CleanupSessionPipesNone(id, dir) == dir

CleanupSessionPipes(id, dir) == dir \ SessionPipes(id)

CleanupOSNone(s, o, exit) == o

\* CleanupSession on the operating system: the PTY is closed (ptyCloses
\* counts the calls of Close) when the session still holds it; the process is signalled and reaped when the session still
\* holds it.  `exit` is what the monitor's own Wait on that process returns
\* afterwards: the two Wait calls race, and a killed process is an error.
CleanupOS(s, o, exit) ==
    [proc |-> IF s.Process /\ o.proc \in {"alive", "exit0"} THEN exit ELSE o.proc,
     ptyOpen |-> IF s.PTY THEN FALSE ELSE o.ptyOpen,
     ptyCloses |-> IF s.PTY THEN o.ptyCloses + 1 ELSE o.ptyCloses]

OnceNever(once) == FALSE

\* sync.Once: the body runs only when the Once has not fired.
OnceDone(once) == once

CleanedKeepsStatus(s) == [s EXCEPT !.PTY = FALSE, !.Process = FALSE]

\* The status the Manager writes at the end of a cleanup.
Cleaned(s) == [s EXCEPT !.Status = "stopped", !.PTY = FALSE, !.Process = FALSE]

\* The part cleanupSession and cleanupSessionImmediate share: stop and forget
\* the runner, CleanupManager.CleanupSession, then status and handles.
StopAndClean(id) ==
    /\ IF id \in sessionRunners
       THEN /\ runner' = [runner EXCEPT ![id] = RunnerStop(@)]
            /\ sessionRunners' = sessionRunners \ {id}
       ELSE UNCHANGED <<runner, sessionRunners>>
    /\ \E exit \in {"exit0", "exitErr"} :
         os' = [os EXCEPT ![id] = CleanupOS(session[id], @, exit)]
    /\ files' = CleanupSessionPipes(id, files)
    /\ session' = [session EXCEPT ![id] = Cleaned(@)]

\* The callback cleanupSession makes when one is installed.
Notify(id, status) ==
    IF statusCallback THEN Append(callbacks, <<id, status>>) ELSE callbacks

----------------------------------------------------------------------------
(* terminal.Manager *)

\* The callback is installed, if at all, while the server is wired up, before
\* the first session exists.
SetStatusCallback ==
    /\ panic = NoPanic
    /\ nextId = 1
    /\ ~statusCallback
    /\ statusCallback' = TRUE
    /\ UNCHANGED <<nextId, session, sessions, sessionRunners, callbacks, mpc,
                   timers, shutdownOnce, shutdownCalls, stopChan, sweeps, ret,
                   termProc, runner, os, files, outputLog, outputFile, ptyOut, panic, hvars, avars>>

\* CreateSession that fails, for a fresh identifier that is then never used:
\* Mkfifo fails and nothing was made; or the output file cannot be made and
\* CreateSessionPipes removes the FIFO again; or CreatePTY fails and
\* CleanupSessionPipes removes both.  The Manager's lock is held throughout.
CreateSessionFail ==
    /\ panic = NoPanic
    /\ mpc = Idle
    /\ nextId <= MaxSessions + 1
    /\ \E cause \in {"mkfifo", "output", "pty"} :
         files' = IF cause = "pty"
                  THEN CleanupSessionPipes(nextId, PipesAfter(nextId, files, "none"))
                  ELSE PipesAfter(nextId, files, cause)
    /\ ret' = Ret("CreateSession", 0, "error")
    /\ UNCHANGED <<nextId, session, sessions, sessionRunners, statusCallback,
                   callbacks, mpc, timers, shutdownOnce, shutdownCalls,
                   stopChan, sweeps, termProc, runner, os, outputLog, outputFile, ptyOut, panic,
                   hvars, avars>>

\* CreateSession up to the point where Runner.Start has spawned its tasks.
CreateSessionBegin ==
    /\ panic = NoPanic
    /\ mpc = Idle
    /\ nextId <= MaxSessions
    /\ LET id == nextId IN
       /\ nextId' = nextId + 1
       /\ files' = CreateSessionPipes(id, files)
       /\ outputLog' = [outputLog EXCEPT ![id] = 0]
       /\ outputFile' = [outputFile EXCEPT ![id] = <<>>]
       /\ ptyOut' = [ptyOut EXCEPT ![id] = 0]
       /\ os' = [os EXCEPT ![id] =
                    [proc |-> "alive", ptyOpen |-> TRUE, ptyCloses |-> 0]]
       /\ session' = [session EXCEPT ![id] =
                         [Status |-> "starting", PTY |-> TRUE,
                          Process |-> TRUE, ErrorMessage |-> ""]]
       /\ sessions' = sessions \cup {id}
       /\ sessionRunners' = sessionRunners \cup {id}
       /\ runner' = [runner EXCEPT ![id] =
                        RunnerStarted(NewSessionRunner(statusCallback))]
       /\ mpc' = Locked("create", "start", id)
    /\ UNCHANGED <<statusCallback, callbacks, timers, shutdownOnce,
                   shutdownCalls, stopChan, sweeps, ret, termProc, panic,
                   hvars, avars>>

\* CreateSession as one step, from taking the lock to returning the session:
\* what CreateSessionBegin and CreateSessionFinish do one after the other.
CreateSession ==
    /\ panic = NoPanic
    /\ mpc = Idle
    /\ nextId <= MaxCreated
    /\ LET id == nextId IN
       /\ nextId' = nextId + 1
       /\ files' = CreateSessionPipes(id, files)
       /\ outputLog' = [outputLog EXCEPT ![id] = 0]
       /\ outputFile' = [outputFile EXCEPT ![id] = <<>>]
       /\ ptyOut' = [ptyOut EXCEPT ![id] = 0]
       /\ os' = [os EXCEPT ![id] =
                    [proc |-> "alive", ptyOpen |-> TRUE, ptyCloses |-> 0]]
       /\ session' = [session EXCEPT ![id] =
                         [Status |-> "running", PTY |-> TRUE,
                          Process |-> TRUE, ErrorMessage |-> ""]]
       /\ sessions' = sessions \cup {id}
       /\ sessionRunners' = sessionRunners \cup {id}
       /\ runner' = [runner EXCEPT ![id] =
                        RunnerStarted(NewSessionRunner(statusCallback))]
       /\ ret' = Ret("CreateSession", id, "ok")
    /\ UNCHANGED <<statusCallback, callbacks, mpc, timers, shutdownOnce,
                   shutdownCalls, stopChan, sweeps, termProc, panic,
                   hvars, avars>>

\* Runner.Start marks the session running after the tasks were spawned, and
\* CreateSession returns.
CreateSessionFinish ==
    /\ panic = NoPanic
    /\ mpc.op = "create"
    /\ session' = [session EXCEPT ![mpc.id].Status = "running"]
    /\ mpc' = Idle
    /\ ret' = Ret("CreateSession", mpc.id, "ok")
    /\ UNCHANGED <<nextId, sessions, sessionRunners, statusCallback, callbacks,
                   timers, shutdownOnce, shutdownCalls, stopChan, sweeps,
                   termProc, runner, os, files, outputLog, outputFile, ptyOut, panic, hvars, avars>>

\* TerminateSession up to the call of cleanupSession.
TerminateSession(id) ==
    /\ panic = NoPanic
    /\ mpc = Idle
    /\ IF id \notin sessions \/ ~CanTerminate(session[id])
       THEN /\ ret' = Ret("TerminateSession", id, "error")
            /\ UNCHANGED <<session, mpc, termProc>>
       ELSE /\ session' = [session EXCEPT ![id].Status = "stopping"]
            /\ mpc' = Locked("terminate", "cleanup", id)
            /\ termProc' = [termProc EXCEPT ![id] = os[id].proc]
            /\ UNCHANGED ret
    /\ UNCHANGED <<nextId, sessions, sessionRunners, statusCallback, callbacks,
                   timers, shutdownOnce, shutdownCalls, stopChan, sweeps,
                   runner, os, files, outputLog, outputFile, ptyOut, panic, hvars, avars>>

\* cleanupSession as TerminateSession calls it; TerminateSession returns.
cleanupSession ==
    /\ panic = NoPanic
    /\ mpc.op = "terminate"
    /\ StopAndClean(mpc.id)
    /\ callbacks' = Notify(mpc.id, "stopped")
    /\ timers' = [timers EXCEPT ![mpc.id] = @ + 1]
    /\ ret' = Ret("TerminateSession", mpc.id, "ok")
    /\ mpc' = Idle
    /\ UNCHANGED <<nextId, sessions, statusCallback, shutdownOnce,
                   shutdownCalls, stopChan, sweeps, termProc, outputLog, outputFile, ptyOut,
                   panic, hvars, avars>>

\* One visit of cleanupInactiveSessions: the session is past its threshold
\* (5 minutes when stopped or error, 30 minutes otherwise) and cleanupSession
\* is called for it.
cleanupInactiveSessions(id) ==
    /\ panic = NoPanic
    /\ mpc = Idle
    /\ stopChan = 0
    /\ sweeps < MaxSweeps
    /\ id \in sessions
    /\ sweeps' = sweeps + 1
    /\ StopAndClean(id)
    /\ callbacks' = Notify(id, "stopped")
    /\ timers' = [timers EXCEPT ![id] = @ + 1]
    /\ UNCHANGED <<nextId, sessions, statusCallback, mpc, shutdownOnce,
                   shutdownCalls, stopChan, ret, termProc, outputLog, outputFile, ptyOut, panic,
                   hvars, avars>>

\* The goroutine cleanupSession leaves behind: remove after the grace delay.
RemoveAfterDelay(id) ==
    /\ panic = NoPanic
    /\ mpc = Idle
    /\ timers[id] > 0
    /\ timers' = [timers EXCEPT ![id] = @ - 1]
    /\ sessions' = sessions \ {id}
    /\ UNCHANGED <<nextId, session, sessionRunners, statusCallback, callbacks,
                   mpc, shutdownOnce, shutdownCalls, stopChan, sweeps, ret,
                   termProc, runner, os, files, outputLog, outputFile, ptyOut, panic, hvars, avars>>

\* The loop of Shutdown: the next session to clean, or the end of the loop.
ShutdownLoop(left) ==
    IF left = {}
    THEN {Locked("shutdown", "orphans", 0)}
    ELSE {Locked("shutdown", "cleanup", id) : id \in left}

\* Manager.Shutdown, up to the first session of its loop.
Shutdown ==
    /\ mpc = Idle
    /\ panic = NoPanic
    /\ shutdownCalls < MaxShutdownCalls
    /\ shutdownCalls' = shutdownCalls + 1
    /\ IF ~OnceDone(shutdownOnce)
       THEN /\ shutdownOnce' = TRUE
            /\ stopChan' = stopChan + 1
            /\ panic' = IF stopChan > 0
                        THEN Panic("Manager.Shutdown", "close of closed channel")
                        ELSE NoPanic
            /\ mpc' \in ShutdownLoop(sessions)
            /\ UNCHANGED ret
       ELSE /\ ret' = Ret("Shutdown", 0, "ok")
            /\ UNCHANGED <<shutdownOnce, stopChan, panic, mpc>>
    /\ UNCHANGED <<nextId, session, sessions, sessionRunners, statusCallback,
                   callbacks, timers, sweeps, termProc, runner, os, files,
                   outputLog, outputFile, ptyOut, hvars, avars>>

\* cleanupSessionImmediate for one session of Shutdown's loop.
cleanupSessionImmediate ==
    /\ panic = NoPanic
    /\ mpc.op = "shutdown"
    /\ mpc.step = "cleanup"
    /\ StopAndClean(mpc.id)
    /\ sessions' = sessions \ {mpc.id}
    /\ mpc' \in ShutdownLoop(sessions')
    /\ UNCHANGED <<nextId, statusCallback, callbacks, timers, shutdownOnce,
                   shutdownCalls, stopChan, sweeps, ret, termProc, outputLog, outputFile, ptyOut,
                   panic, hvars, avars>>

\* Shutdown, last part: CleanupOrphanedResources empties the pipes directory.
CleanupOrphanedResources ==
    /\ panic = NoPanic
    /\ mpc.step = "orphans"
    /\ files' = {}
    /\ mpc' = Idle
    /\ ret' = Ret("Shutdown", 0, "ok")
    /\ UNCHANGED <<nextId, session, sessions, sessionRunners, statusCallback,
                   callbacks, timers, shutdownOnce, shutdownCalls, stopChan,
                   sweeps, termProc, runner, os, outputLog, outputFile, ptyOut, panic, hvars, avars>>

----------------------------------------------------------------------------
(* operating system *)

\* The child process exits by itself, normally or not.
ProcessExit(id) ==
    /\ panic = NoPanic
    /\ os[id].proc = "alive"
    /\ \E exit \in {"exit0", "exitErr"} :
         os' = [os EXCEPT ![id].proc = exit]
    /\ UNCHANGED <<nextId, session, sessions, sessionRunners, statusCallback,
                   callbacks, mpc, timers, shutdownOnce, shutdownCalls,
                   stopChan, sweeps, ret, termProc, runner, files, outputLog, outputFile, ptyOut,
                   panic, hvars, avars>>

----------------------------------------------------------------------------
(* terminal.SessionRunner: the four tasks *)

\* What monitorProcess writes once Process.Wait has returned.
MonitorStatusStopped(s, waitErr) == [s EXCEPT !.Status = "stopped"]

MonitorStatus(s, waitErr) ==
    IF waitErr
    THEN [s EXCEPT !.Status = "error", !.ErrorMessage = "exit"]
    ELSE [s EXCEPT !.Status = "stopped"]

\* What handleErrors writes for an error taken from errorChan.
ErrorStatus(s, e) == [s EXCEPT !.Status = "error", !.ErrorMessage = e]

\* monitorProcess: Wait returns, the status is written, the callback is
\* called and the Runner stops itself.
monitorProcess(id) ==
    /\ panic = NoPanic
    /\ runner[id].mon = "wait"
    /\ os[id].proc \in {"exit0", "exitErr"}
    /\ session' = [session EXCEPT ![id] = MonitorStatus(@, os[id].proc = "exitErr")]
    /\ callbacks' = IF runner[id].statusCallback
                    THEN Append(callbacks, <<id, session'[id].Status>>)
                    ELSE callbacks
    /\ runner' = [runner EXCEPT ![id] = [RunnerStop(@) EXCEPT !.mon = "done"]]
    /\ UNCHANGED <<nextId, sessions, sessionRunners, statusCallback, mpc,
                   timers, shutdownOnce, shutdownCalls, stopChan, sweeps, ret,
                   termProc, os, files, outputLog, outputFile, ptyOut, panic, hvars, avars>>

\* handleErrors: the select takes an error from errorChan.
handleErrors(id) ==
    /\ panic = NoPanic
    /\ runner[id].err = "run"
    /\ runner[id].errorChan # <<>>
    /\ session' = [session EXCEPT ![id] = ErrorStatus(@, Head(runner[id].errorChan))]
    /\ runner' = [runner EXCEPT ![id].errorChan = Tail(@)]
    /\ UNCHANGED <<nextId, sessions, sessionRunners, statusCallback, callbacks,
                   mpc, timers, shutdownOnce, shutdownCalls, stopChan, sweeps,
                   ret, termProc, os, files, outputLog, outputFile, ptyOut, panic, hvars, avars>>

\* handleErrors: the select takes the stop signal.
handleErrorsStop(id) ==
    /\ panic = NoPanic
    /\ runner[id].err = "run"
    /\ runner[id].stopped = 1
    /\ runner' = [runner EXCEPT ![id].err = "done"]
    /\ UNCHANGED <<nextId, session, sessions, sessionRunners, statusCallback,
                   callbacks, mpc, timers, shutdownOnce, shutdownCalls,
                   stopChan, sweeps, ret, termProc, os, files, outputLog, outputFile, ptyOut,
                   panic, hvars, avars>>

\* The retry envelope after one attempt of a pump has returned `res`
\* ("nil" or "err"); `count` is the retry counter it uses, `pc` its position.
\* Returns the new counter, the new position and whether a fatal error is
\* sent to errorChan.
RetryForever(count, res) ==
    IF res = "nil"
    THEN [count |-> 0, pc |-> "done", fatal |-> FALSE]
    ELSE [count |-> count + 1, pc |-> "top", fatal |-> FALSE]

Retry(count, res) ==
    IF res = "nil"
    THEN [count |-> 0, pc |-> "done", fatal |-> FALSE]
    ELSE IF count + 1 < maxRetries
         THEN [count |-> count + 1, pc |-> "top", fatal |-> FALSE]
         ELSE [count |-> count + 1, pc |-> "done", fatal |-> TRUE]

RetryTopUnstoppable(count, stopped) ==
    IF count >= maxRetries THEN "done" ELSE "try"

\* The head of the retry loop: loop condition, then the stopped flag.
RetryTop(count, stopped) ==
    IF count >= maxRetries \/ stopped = 1 THEN "done" ELSE "try"

AfterPty(r, res) ==
    LET n == Retry(r.retryCount, res) IN
    [r EXCEPT !.retryCount = n.count, !.pty = n.pc,
              !.errorChan = IF n.fatal THEN Append(@, "pty bridge") ELSE @]

AfterInput(r, res) ==
    LET n == Retry(r.inRetry, res) IN
    [r EXCEPT !.inRetry = n.count, !.inp = n.pc,
              !.errorChan = IF n.fatal THEN Append(@, "input bridge") ELSE @]

\* bridgePTYOutputToFileWithRetry: head of the loop; when it goes on,
\* bridgePTYOutputToFile opens the output file with O_CREATE|O_APPEND.
bridgePTYOutputToFileWithRetry(id) ==
    /\ panic = NoPanic
    /\ runner[id].pty = "top"
    /\ LET go == RetryTop(runner[id].retryCount, runner[id].stopped) = "try" IN
       /\ runner' = [runner EXCEPT ![id].pty = IF go THEN "read" ELSE "done"]
       /\ files' = IF go THEN files \cup {OutputFile(id)} ELSE files
       /\ outputLog' = IF go /\ OutputFile(id) \notin files
                       THEN [outputLog EXCEPT ![id] = 0]
                       ELSE outputLog
       /\ outputFile' = IF go /\ OutputFile(id) \notin files
                        THEN [outputFile EXCEPT ![id] = <<>>]
                        ELSE outputFile
       /\ UNCHANGED ptyOut
    /\ UNCHANGED <<nextId, session, sessions, sessionRunners, statusCallback,
                   callbacks, mpc, timers, shutdownOnce, shutdownCalls,
                   stopChan, sweeps, ret, termProc, os, panic, hvars, avars>>

\* bridgePTYOutputToFile: the select at the head of the read loop sees the
\* stop signal.
bridgePTYOutputToFileStop(id) ==
    /\ panic = NoPanic
    /\ runner[id].pty = "read"
    /\ runner[id].stopped = 1
    /\ runner' = [runner EXCEPT ![id] = AfterPty(@, "nil")]
    /\ UNCHANGED <<nextId, session, sessions, sessionRunners, statusCallback,
                   callbacks, mpc, timers, shutdownOnce, shutdownCalls,
                   stopChan, sweeps, ret, termProc, os, files, outputLog, outputFile, ptyOut,
                   panic, hvars, avars>>

\* bridgePTYOutputToFile: PTY.Read returns bytes of the running process; they
\* are appended to the output file.
bridgePTYOutputToFile(id) ==
    /\ panic = NoPanic
    /\ runner[id].pty = "read"
    /\ os[id].ptyOpen /\ os[id].proc = "alive"
    /\ outputLog[id] < MaxLog
    /\ OutputFile(id) \in files
    /\ outputLog' = [outputLog EXCEPT ![id] = @ + 1]
    /\ ptyOut' = [ptyOut EXCEPT ![id] = @ + 1]
    /\ outputFile' = [outputFile EXCEPT ![id] = Append(@, ptyOut'[id])]
    /\ UNCHANGED <<nextId, session, sessions, sessionRunners, statusCallback,
                   callbacks, mpc, timers, shutdownOnce, shutdownCalls,
                   stopChan, sweeps, ret, termProc, runner, os, files, panic,
                   hvars, avars>>

\* bridgePTYOutputToFile: PTY.Read fails.  A closed PTY is an error; after
\* the process has exited the read ends with io.EOF or with an I/O error,
\* whichever the platform reports.
bridgePTYOutputToFileEnd(id) ==
    /\ panic = NoPanic
    /\ runner[id].pty = "read"
    /\ \/ /\ ~os[id].ptyOpen
          /\ runner' = [runner EXCEPT ![id] = AfterPty(@, "err")]
       \/ /\ os[id].ptyOpen /\ os[id].proc \in {"exit0", "exitErr"}
          /\ \E res \in {"nil", "err"} :
               runner' = [runner EXCEPT ![id] = AfterPty(@, res)]
    /\ UNCHANGED <<nextId, session, sessions, sessionRunners, statusCallback,
                   callbacks, mpc, timers, shutdownOnce, shutdownCalls,
                   stopChan, sweeps, ret, termProc, os, files, outputLog, outputFile, ptyOut,
                   panic, hvars, avars>>

\* bridgePTYOutputToFile: PTY.Read returns bytes and the Write to the output
\* file fails (the disk is full, an I/O error): the attempt returns the error
\* and the bytes it had read are gone with its buffer.
bridgePTYOutputToFileWriteError(id) ==
    /\ panic = NoPanic
    /\ runner[id].pty = "read"
    /\ os[id].ptyOpen /\ os[id].proc = "alive"
    /\ ptyOut[id] < MaxLog
    /\ OutputFile(id) \in files
    /\ ptyOut' = [ptyOut EXCEPT ![id] = @ + 1]
    /\ runner' = [runner EXCEPT ![id] = AfterPty(@, "err")]
    /\ UNCHANGED <<nextId, session, sessions, sessionRunners, statusCallback,
                   callbacks, mpc, timers, shutdownOnce, shutdownCalls,
                   stopChan, sweeps, ret, termProc, os, files, outputLog,
                   outputFile, panic, hvars, avars>>

RecoveredSilently(r, k, e) == [r EXCEPT ![k] = "done"]

\* The deferred function of a pump after a panic in the task `k`: wg.Done,
\* recover, and the error `e` is sent to errorChan; the task ends.
Recovered(r, k, e) == [r EXCEPT ![k] = "done", !.errorChan = Append(@, e)]

\* bridgePTYOutputToFileWithRetry: an attempt panics.
bridgePTYOutputToFilePanic(id) ==
    /\ panic = NoPanic
    /\ runner[id].pty = "read"
    /\ runner' = [runner EXCEPT ![id] = Recovered(@, "pty", "pty panic")]
    /\ UNCHANGED <<nextId, session, sessions, sessionRunners, statusCallback,
                   callbacks, mpc, timers, shutdownOnce, shutdownCalls,
                   stopChan, sweeps, ret, termProc, os, files, outputLog,
                   outputFile, ptyOut, panic, hvars, avars>>

\* bridgeInputPipeToPTYWithRetry: an attempt panics.
bridgeInputPipeToPTYPanic(id) ==
    /\ panic = NoPanic
    /\ runner[id].inp = "blocked"
    /\ runner' = [runner EXCEPT ![id] = Recovered(@, "inp", "input panic")]
    /\ UNCHANGED <<nextId, session, sessions, sessionRunners, statusCallback,
                   callbacks, mpc, timers, shutdownOnce, shutdownCalls,
                   stopChan, sweeps, ret, termProc, os, files, outputLog,
                   outputFile, ptyOut, panic, hvars, avars>>

\* bridgeInputPipeToPTYWithRetry: head of the loop; when it goes on,
\* bridgeInputPipeToPTY opens the FIFO for reading.  The open fails when the
\* path is gone and otherwise blocks until a writer opens the FIFO.
bridgeInputPipeToPTYWithRetry(id) ==
    /\ panic = NoPanic
    /\ runner[id].inp = "top"
    /\ runner' = [runner EXCEPT ![id] =
                     IF RetryTop(@.inRetry, @.stopped) = "done"
                     THEN [@ EXCEPT !.inp = "done"]
                     ELSE IF InputPipe(id) \in files
                          THEN [@ EXCEPT !.inp = "blocked"]
                          ELSE AfterInput(@, "err")]
    /\ UNCHANGED <<nextId, session, sessions, sessionRunners, statusCallback,
                   callbacks, mpc, timers, shutdownOnce, shutdownCalls,
                   stopChan, sweeps, ret, termProc, os, files, outputLog, outputFile, ptyOut,
                   panic, hvars, avars>>

----------------------------------------------------------------------------
(* The Manager with its Runners *)

ManagerStep ==
    \/ SetStatusCallback
    \/ CreateSessionFail
    \/ CreateSessionBegin
    \/ CreateSessionFinish
    \/ \E id \in Ids : TerminateSession(id)
    \/ cleanupSession
    \/ \E id \in Ids : cleanupInactiveSessions(id)
    \/ \E id \in Ids : RemoveAfterDelay(id)
    \/ Shutdown
    \/ cleanupSessionImmediate
    \/ CleanupOrphanedResources

RunnerStep ==
    \/ \E id \in Ids : ProcessExit(id)
    \/ \E id \in Ids : monitorProcess(id)
    \/ \E id \in Ids : handleErrors(id)
    \/ \E id \in Ids : handleErrorsStop(id)
    \/ \E id \in Ids : bridgePTYOutputToFileWithRetry(id)
    \/ \E id \in Ids : bridgePTYOutputToFileStop(id)
    \/ \E id \in Ids : bridgePTYOutputToFile(id)
    \/ \E id \in Ids : bridgePTYOutputToFileEnd(id)
    \/ \E id \in Ids : bridgeInputPipeToPTYWithRetry(id)

Next == ManagerStep \/ RunnerStep

Spec == Init /\ [][Next]_vars

----------------------------------------------------------------------------
(* One Runner and its tasks, scheduled fairly *)

RunnerLifeStep ==
    \/ CreateSessionBegin
    \/ CreateSessionFinish
    \/ \E id \in Ids : TerminateSession(id)
    \/ cleanupSession

NextRunner == RunnerLifeStep \/ RunnerStep

\* A goroutine that can run is run: the error task, once an error is in its
\* channel, takes it or takes the stop signal.
SpecRunner ==
    /\ Init
    /\ [][NextRunner]_vars
    /\ \A id \in Ids : WF_vars(handleErrors(id) \/ handleErrorsStop(id))

\* Every goroutine of the Runner that can run is run, and a call of
\* cleanupSession that holds the lock comes to its end.
SpecRunnerFair ==
    /\ Init
    /\ [][NextRunner]_vars
    /\ WF_vars(cleanupSession)
    /\ \A id \in Ids :
          /\ WF_vars(monitorProcess(id))
          /\ WF_vars(handleErrors(id) \/ handleErrorsStop(id))
          /\ WF_vars(bridgePTYOutputToFileWithRetry(id)
                       \/ bridgePTYOutputToFileStop(id)
                       \/ bridgePTYOutputToFileEnd(id))
          /\ WF_vars(bridgeInputPipeToPTYWithRetry(id))

----------------------------------------------------------------------------
(* One Runner whose pumps can meet an internal fault *)

NextFault ==
    \/ NextRunner
    \/ \E id \in Ids : bridgePTYOutputToFilePanic(id)
    \/ \E id \in Ids : bridgeInputPipeToPTYPanic(id)

SpecFault ==
    /\ Init
    /\ [][NextFault]_vars
    /\ \A id \in Ids : WF_vars(handleErrors(id) \/ handleErrorsStop(id))

----------------------------------------------------------------------------
(* The output log of a session, with writes to it that can fail *)

NextLog ==
    \/ NextRunner
    \/ \E id \in Ids : bridgePTYOutputToFileWriteError(id)

SpecLog == Init /\ [][NextLog]_vars

----------------------------------------------------------------------------
(* The HTTP API: SessionHandler on top of the Manager *)

\* Manager.ListSessions, under the read lock: a new slice that holds the
\* pointers of the registry.  `refs` are the pointers returned and `at` is
\* what they pointed to when the call returned.
ListSessions ==
    /\ panic = NoPanic
    /\ mpc = Idle
    /\ listed.pc # "returned"
    /\ listed' = [pc |-> "returned", refs |-> sessions,
                  at |-> [id \in sessions |-> session[id]],
                  copy |-> [id \in {} |-> NoSession]]
    /\ UNCHANGED <<mvars, panic, hvars>>

\* SessionHandler.ListSessions after the Manager has returned: each pointer is
\* dereferenced and the record copied into the response, without a lock.
ListSessionsCopy ==
    /\ panic = NoPanic
    /\ listed.pc = "returned"
    /\ listed' = [listed EXCEPT !.pc = "copied",
                                !.copy = [id \in listed.refs |-> session[id]]]
    /\ UNCHANGED <<mvars, panic, hvars>>

ApiStep ==
    \/ ListSessions
    \/ ListSessionsCopy

\* The sessions the API lists: created, terminated, exiting, removed.
LifecycleStep ==
    \/ CreateSessionBegin
    \/ CreateSessionFinish
    \/ \E id \in Ids : TerminateSession(id)
    \/ cleanupSession
    \/ \E id \in Ids : RemoveAfterDelay(id)
    \/ \E id \in Ids : ProcessExit(id)
    \/ \E id \in Ids : monitorProcess(id)

NextApi == ApiStep \/ LifecycleStep

SpecApi == Init /\ [][NextApi]_vars

----------------------------------------------------------------------------
(* The registry, with sessions created and terminated call by call *)

RegistryStep ==
    \/ CreateSession
    \/ CreateSessionFail
    \/ \E id \in Ids : TerminateSession(id)
    \/ cleanupSession
    \/ \E id \in Ids : RemoveAfterDelay(id)
    \/ \E id \in Ids : ProcessExit(id)
    \/ \E id \in Ids : monitorProcess(id)

SpecRegistry == Init /\ [][RegistryStep]_vars

----------------------------------------------------------------------------
(* The registry under the background sweep *)

SweepStep ==
    \/ SetStatusCallback
    \/ RegistryStep
    \/ \E id \in Ids : cleanupInactiveSessions(id)

SpecSweep == Init /\ [][SweepStep]_vars

----------------------------------------------------------------------------
(* websocket.Hub, websocket.Client, the WebSocket handler *)

ClientsOf(s) == IF s \in DOMAIN clients THEN clients[s] ELSE {}

\* h.clients[s][c] = true, the entry being made when it is missing.
AddClient(cs, s, c) ==
    [x \in DOMAIN cs \cup {s} |->
        IF x = s THEN (IF s \in DOMAIN cs THEN cs[s] ELSE {}) \cup {c} ELSE cs[x]]

FirstClientNever(n) == FALSE

\* registerClient starts the watcher when the session has just got its
\* first client.
FirstClient(n) == n = 1

\* A receiver is waiting on the queue of c: its write pump is in its select.
Receiver(c) == cpc[c].w = "recv"

\* The bytes of the output file after position `from` up to `to`.
Bytes(from, to) == [i \in 1..(to - from) |-> from + i]

\* HandleWebSocket up to hub.RegisterClient: the client is made and offered to
\* the Hub on the register channel.
HandleWebSocket(c, s) ==
    /\ panic = NoPanic
    /\ cpc[c].h = "none"
    /\ client' = [client EXCEPT ![c] = NewClient(s)]
    /\ cpc' = [cpc EXCEPT ![c].h = "register"]
    /\ UNCHANGED <<mvars, avars, panic, hub, clients, outputWatchers, inputWriters,
                   hubStopChan, watchers, main, sent>>

\* Hub.Run: the select takes a client from the register channel; the handler
\* of that client goes on to Client.Run.
Run(c) ==
    /\ panic = NoPanic
    /\ hub.pc = "run"
    /\ cpc[c].h = "register"
    /\ hub' = [pc |-> "registering", arg |-> c]
    /\ cpc' = [cpc EXCEPT ![c].h = "run"]
    /\ UNCHANGED <<mvars, avars, panic, clients, outputWatchers, inputWriters,
                   hubStopChan, watchers, main, client, sent>>

\* Hub.registerClient.  GetSession takes the Manager's lock for reading.
\* A watcher of the session that is broadcasting iterates the client set
\* while it is written here, without a lock: the runtime may end the process.
registerClient ==
    /\ panic = NoPanic
    /\ hub.pc = "registering"
    /\ mpc = Idle
    /\ LET c == hub.arg
           s == client[c].sessionID
       IN IF s \notin sessions
          THEN \* sendError, then Close
               /\ panic' = IF SendMessage(client[c].send, Receiver(c)) = "panic"
                           THEN Panic("Hub.registerClient", "send on closed channel")
                           ELSE IF Close(AfterSend(client[c].send, Receiver(c))) = "panic"
                                THEN Panic("Hub.registerClient", "close of closed channel")
                                ELSE NoPanic
               /\ client' = [client EXCEPT ![c].send = "closed"]
               /\ sent' = [sent EXCEPT
                              ![c].refused = TRUE,
                              ![c].notices =
                                  IF SendMessage(client[c].send, Receiver(c)) = "delivered"
                                  THEN Append(@, "error") ELSE @]
               /\ UNCHANGED <<clients, outputWatchers, watchers>>
          ELSE /\ clients' = AddClient(clients, s, c)
               /\ IF FirstClient(Cardinality(clients'[s]))
                  THEN /\ watchers' = Append(watchers, NewWatcher(s))
                       /\ outputWatchers' =
                              [x \in DOMAIN outputWatchers \cup {s} |->
                                  IF x = s THEN Len(watchers') ELSE outputWatchers[x]]
                  ELSE UNCHANGED <<watchers, outputWatchers>>
               /\ sent' = [sent EXCEPT ![c].regSize =
                              IF OutputFile(s) \in files THEN outputLog[s] ELSE 0,
                           ![c].notices =
                              IF SendMessage(client[c].send, Receiver(c)) = "delivered"
                              THEN Append(@, "status") ELSE @]
               /\ client' = [client EXCEPT ![c].send = AfterSend(@, Receiver(c))]
               /\ \E race \in {FALSE, TRUE} :
                    panic' = IF SendMessage(client[c].send, Receiver(c)) = "panic"
                             THEN Panic("Hub.registerClient", "send on closed channel")
                             ELSE IF race /\ Cardinality(clients'[s]) > 1
                                          /\ s \in DOMAIN outputWatchers
                                  THEN Panic("Hub.registerClient",
                                             "concurrent map iteration and map write")
                                  ELSE NoPanic
    /\ hub' = [pc |-> "run", arg |-> 0]
    /\ UNCHANGED <<mvars, avars, inputWriters, hubStopChan, main, cpc>>

\* Client.Run in the handler: SendMessage(connected), then the two pumps are
\* started.  A panic of the handler is recovered by the HTTP server: the
\* handler ends and the pumps are never started.
ClientRun(c) ==
    /\ panic = NoPanic
    /\ cpc[c].h = "run"
    /\ LET res == SendMessage(client[c].send, Receiver(c)) IN
       /\ client' = [client EXCEPT ![c].send = AfterSend(@, Receiver(c))]
       /\ sent' = [sent EXCEPT ![c].notices =
                      IF res = "delivered" THEN Append(@, "connected") ELSE @]
       /\ cpc' = [cpc EXCEPT ![c] =
                     IF res = "panic"
                     THEN [@ EXCEPT !.h = "panicked"]
                     ELSE [h |-> "done", w |-> "start", r |-> "start"]]
    /\ UNCHANGED <<mvars, avars, panic, hub, clients, outputWatchers, inputWriters,
                   hubStopChan, watchers, main>>

\* writePump: a closed queue makes it send the close frame, close the
\* connection and return; otherwise it waits in its select.
writePump(c) ==
    /\ panic = NoPanic
    /\ cpc[c].w = "start"
    /\ IF client[c].send = "closed"
       THEN /\ cpc' = [cpc EXCEPT ![c].w = "done"]
            /\ client' = [client EXCEPT ![c].conn = FALSE]
       ELSE /\ cpc' = [cpc EXCEPT ![c].w = "recv"]
            /\ UNCHANGED client
    /\ UNCHANGED <<mvars, avars, panic, hub, clients, outputWatchers, inputWriters,
                   hubStopChan, watchers, main, sent>>

\* The frames a connection may carry, by the type field they have after
\* FromJSON ("malformed" when FromJSON fails, "invalid" for a type IsValid
\* does not know, "output" for a type only the server sends), and the end of
\* the connection.
Dims == {-1, 0, 24}

\* The session_id field of a frame: absent (0), a session, or any other text.
FrameSessions == 0..(MaxSessions + 1)

Frames ==
    {[type |-> t, rows |-> 0, cols |-> 0, data |-> "", session_id |-> 0] :
        t \in {"ping", "malformed", "invalid", "output", "closed"}}
    \cup {[type |-> "input", rows |-> 0, cols |-> 0, data |-> "a", session_id |-> s] :
              s \in FrameSessions}
    \cup {[type |-> "resize", rows |-> r, cols |-> k, data |-> "", session_id |-> s] :
              r \in Dims, k \in Dims, s \in FrameSessions}

\* WebSocketMessage.IsValid: the types of client and of server messages.
IsValid(type) == type \in {"input", "resize", "ping", "output"}

RoutedSessionOfFrame(frameSession, connSession) == frameSession

\* The session an event of a client is for: handleInputMessage and
\* handleResizeMessage take it from the connection (c.sessionID), whatever
\* the frame says.
RoutedSession(frameSession, connSession) == connSession

\* Client.handleInputMessage: the SessionInput offered to the Hub.
SessionInput(f, sid) ==
    [type |-> "input", SessionID |-> RoutedSession(f.session_id, sid),
     Data |-> f.data]

\* Client.handleResizeMessage: the SessionResize offered to the Hub.
SessionResize(f, sid) ==
    [type |-> "resize", SessionID |-> RoutedSession(f.session_id, sid),
     Rows |-> ToUint16(f.rows), Cols |-> ToUint16(f.cols)]

\* The message readPump offers to the queue for a frame, if any: sendError
\* for a frame that does not parse or is not valid, the pong for a ping, and
\* nothing for a valid frame of a type the switch does not handle.
Reply(f) ==
    IF f.type = "malformed" \/ ~IsValid(f.type) THEN "error"
    ELSE IF f.type = "ping" THEN "pong"
    ELSE "none"

\* readPump: one frame is read.  Input and resize frames are offered to the
\* Hub, as is the client itself when the connection has ended; the other
\* frames are answered on the queue, or not at all.
readPump(c) ==
    /\ panic = NoPanic
    /\ cpc[c].r = "start"
    /\ \E f \in Frames :
         /\ f.type = "closed" \/ client[c].conn
         /\ CASE f.type = "closed" ->
                   /\ cpc' = [cpc EXCEPT ![c].r = "unregister"]
                   /\ UNCHANGED <<client, panic, sent>>
              [] f.type = "input" ->
                   /\ cpc' = [cpc EXCEPT ![c].r = "sessionInput"]
                   /\ client' = [client EXCEPT
                                     ![c].event = <<f, SessionInput(f, client[c].sessionID)>>]
                   /\ UNCHANGED <<panic, sent>>
              [] f.type = "resize" ->
                   /\ cpc' = [cpc EXCEPT ![c].r = "sessionResize"]
                   /\ client' = [client EXCEPT
                                     ![c].event = <<f, SessionResize(f, client[c].sessionID)>>]
                   /\ UNCHANGED <<panic, sent>>
              [] OTHER ->
                   LET res == IF Reply(f) = "none" THEN "none"
                              ELSE SendMessage(client[c].send, Receiver(c))
                   IN
                   /\ IF f.type = "ping" THEN sent[c].pings < MaxFrames
                                          ELSE sent[c].rejected < MaxFrames
                   /\ panic' = IF res = "panic"
                               THEN Panic("Client.readPump", "send on closed channel")
                               ELSE NoPanic
                   /\ client' = [client EXCEPT ![c].send =
                                     IF res = "none" THEN @ ELSE AfterSend(@, Receiver(c))]
                   /\ sent' = [sent EXCEPT
                                  ![c].notices =
                                      IF res = "delivered" THEN Append(@, Reply(f)) ELSE @,
                                  ![c].rejected = IF f.type = "ping" THEN @ ELSE @ + 1,
                                  ![c].pings = IF f.type = "ping" THEN @ + 1 ELSE @]
                   /\ UNCHANGED cpc
    /\ UNCHANGED <<mvars, avars, hub, clients, outputWatchers, inputWriters,
                   hubStopChan, watchers, main>>

\* OutputWatcher.watch, a tick that finds the file grown: checkForOutput
\* reads the bytes after lastPosition and Hub.broadcast offers them to each
\* client of the session, in the order the map yields them; lastPosition is
\* moved when the broadcast has returned.
watch(w) ==
    /\ panic = NoPanic
    /\ w \in DOMAIN watchers
    /\ watchers[w].pc = "watch"
    /\ LET s == watchers[w].sessionID
           from == watchers[w].lastPosition
       IN /\ OutputFile(s) \in files
          /\ outputLog[s] > from
          /\ IF ClientsOf(s) = {}
             THEN /\ watchers' = [watchers EXCEPT ![w].lastPosition = outputLog[s]]
                  /\ UNCHANGED <<sent, client, panic>>
             ELSE \E c \in ClientsOf(s) :
                    LET res == SendMessage(client[c].send, Receiver(c)) IN
                    /\ sent' = [sent EXCEPT
                                  ![c].handed = @ \o Bytes(from, outputLog[s]),
                                  ![c].delivered =
                                      IF res = "delivered"
                                      THEN @ \o Bytes(from, outputLog[s]) ELSE @]
                    /\ client' = [client EXCEPT ![c].send = AfterSend(@, Receiver(c))]
                    /\ panic' = IF res = "panic"
                                THEN Panic("Hub.broadcast", "send on closed channel")
                                ELSE NoPanic
                    /\ watchers' = IF res = "panic" THEN watchers
                                   ELSE [watchers EXCEPT ![w].lastPosition = outputLog[s]]
    /\ UNCHANGED <<mvars, avars, hub, clients, outputWatchers, inputWriters,
                   hubStopChan, main, cpc>>

\* OutputWatcher.watch: the select takes the stop signal.
watchStop(w) ==
    /\ panic = NoPanic
    /\ w \in DOMAIN watchers
    /\ watchers[w].pc = "watch"
    /\ watchers[w].stopChan > 0
    /\ watchers' = [watchers EXCEPT ![w].pc = "done"]
    /\ UNCHANGED <<mvars, avars, panic, hub, clients, outputWatchers, inputWriters,
                   hubStopChan, main, client, cpc, sent>>

\* Hub.shutdown on the watchers: stopOutputWatcher for every entry.
StopWatchers(ws) ==
    [w \in DOMAIN ws |->
        IF \E s \in DOMAIN outputWatchers : outputWatchers[s] = w
        THEN [ws[w] EXCEPT !.stopChan = @ + 1]
        ELSE ws[w]]

\* The clients Hub.shutdown closes.
Registered == UNION {clients[s] : s \in DOMAIN clients}

\* Hub.shutdown, first loop: stopOutputWatcher for every entry.
shutdownWatchers ==
    /\ watchers' = StopWatchers(watchers)
    /\ outputWatchers' = [s \in {} |-> 0]

\* Hub.shutdown, the rest: every client and every input writer is closed and
\* the three maps are replaced by empty ones.
shutdownClients ==
    /\ client' = [c \in ClientIds |->
                     IF c \in Registered THEN [client[c] EXCEPT !.send = "closed"]
                     ELSE client[c]]
    /\ panic' = IF \E c \in Registered : Close(client[c].send) = "panic"
                THEN Panic("Hub.shutdown", "close of closed channel")
                ELSE NoPanic
    /\ outputWatchers' = [s \in {} |-> 0]
    /\ clients' = [s \in {} |-> {}]
    /\ inputWriters' = {}

\* Hub.Stop as main calls it: shutdown() begins.
Stop ==
    /\ panic = NoPanic
    /\ main.pc = "idle"
    /\ main.stops < hubStopCalls
    /\ main' = [stops |-> main.stops + 1, pc |-> "shutdown"]
    /\ shutdownWatchers
    /\ UNCHANGED <<mvars, avars, panic, hub, clients, inputWriters, hubStopChan,
                   client, cpc, sent>>

\* Hub.Stop: shutdown() ends.
StopShutdown ==
    /\ panic = NoPanic
    /\ main.pc = "shutdown"
    /\ main' = [main EXCEPT !.pc = "close"]
    /\ shutdownClients
    /\ UNCHANGED <<mvars, avars, hub, hubStopChan, watchers, cpc, sent>>

\* Hub.Stop, last statement: close(h.stopChan).
StopClose ==
    /\ panic = NoPanic
    /\ main.pc = "close"
    /\ main' = [main EXCEPT !.pc = "idle"]
    /\ hubStopChan' = hubStopChan + 1
    /\ panic' = IF hubStopChan > 0
                THEN Panic("Hub.Stop", "close of closed channel")
                ELSE NoPanic
    /\ UNCHANGED <<mvars, avars, hub, clients, outputWatchers, inputWriters, watchers,
                   client, cpc, sent>>

\* Hub.Run: the select takes the stop signal; shutdown() begins.
RunStop ==
    /\ panic = NoPanic
    /\ hub.pc = "run"
    /\ hubStopChan > 0
    /\ hub' = [pc |-> "shutdown", arg |-> 0]
    /\ shutdownWatchers
    /\ UNCHANGED <<mvars, avars, panic, clients, inputWriters, hubStopChan, main,
                   client, cpc, sent>>

\* Hub.Run: shutdown() ends and Run returns.
RunShutdown ==
    /\ panic = NoPanic
    /\ hub.pc = "shutdown"
    /\ hub' = [pc |-> "stopped", arg |-> 0]
    /\ shutdownClients
    /\ UNCHANGED <<mvars, avars, hubStopChan, main, watchers, cpc, sent>>

\* At most one watcher is made for each registration.
WatcherIds == 1..MaxClients

HubStep ==
    \/ \E c \in ClientIds, s \in Ids : HandleWebSocket(c, s)
    \/ \E c \in ClientIds : Run(c)
    \/ registerClient
    \/ \E c \in ClientIds : ClientRun(c)
    \/ \E c \in ClientIds : writePump(c)
    \/ \E c \in ClientIds : readPump(c)
    \/ \E w \in WatcherIds : watch(w)
    \/ \E w \in WatcherIds : watchStop(w)
    \/ Stop
    \/ StopShutdown
    \/ StopClose
    \/ RunStop
    \/ RunShutdown

\* The sessions the Hub serves: created, their output pumped to the log.
SessionStep ==
    \/ CreateSessionBegin
    \/ CreateSessionFinish
    \/ \E id \in Ids : bridgePTYOutputToFileWithRetry(id)
    \/ \E id \in Ids : bridgePTYOutputToFile(id)

NextHub == HubStep \/ SessionStep

SpecHub == Init /\ [][NextHub]_vars

\* The Hub's loop, the handlers, the pumps and the watchers are goroutines:
\* one that can take a step takes it.
SpecHubFair == SpecHub /\ WF_vars(HubStep)

----------------------------------------------------------------------------
(* Two sessions side by side, each with its Runner, clients and watcher *)

PairStep ==
    \/ CreateSession
    \/ \E id \in Ids : bridgePTYOutputToFileWithRetry(id)
    \/ \E id \in Ids : bridgePTYOutputToFile(id)
    \/ \E c \in ClientIds, s \in Ids : HandleWebSocket(c, s)
    \/ \E c \in ClientIds : Run(c)
    \/ registerClient
    \/ \E c \in ClientIds : ClientRun(c)
    \/ \E c \in ClientIds : writePump(c)
    \/ \E w \in WatcherIds : watch(w)

SpecPair == Init /\ [][PairStep]_vars

----------------------------------------------------------------------------
(* Session lifecycle *)

\* C1: every session in the registry that is starting or running holds its
\* PTY and its process, and every session in the registry that is stopped or
\* error holds neither.
C1_HandlesMatchStatus ==
    \A id \in sessions :
        /\ IsActive(session[id]) => session[id].PTY /\ session[id].Process
        /\ session[id].Status \in {"stopped", "error"} =>
               ~session[id].PTY /\ ~session[id].Process

\* C2: a TerminateSession on an identifier that is not in the registry, or on
\* a session that is not starting or running, returns an error and changes
\* nothing else: status, handles and error message, registry, runner map,
\* runners, pipe files, process and PTY are as before, and no callback is made.
C2_RejectedTerminateChangesNothing ==
    [][\A id \in Ids :
          (TerminateSession(id) /\ (id \notin sessions \/ ~IsActive(session[id])))
              => /\ ret' = Ret("TerminateSession", id, "error")
                 /\ UNCHANGED <<session, sessions, sessionRunners, files,
                                callbacks, runner, os, timers, statusCallback,
                                mpc, outputLog, outputFile, ptyOut, stopChan, shutdownOnce>>]_vars

\* A TerminateSession has just been rejected for a session of the registry
\* that is stopping, stopped or error.
C2_Witness ==
    /\ ret.op = "TerminateSession" /\ ret.res = "error"
    /\ ret.id \in sessions
    /\ session[ret.id].Status \in {"stopping", "stopped", "error"}

\* The termination of `id` and the tasks of its Runner have all finished.
TerminationFinished(id) ==
    /\ termProc[id] # "none"
    /\ mpc = Idle
    /\ runner[id].mon = "done"
    /\ runner[id].err = "done"
    /\ runner[id].pty = "done"
    /\ runner[id].inp \in {"done", "blocked"}

\* C3: when TerminateSession was accepted for a running session whose process
\* had not exited abnormally, the session is stopped once the termination and
\* the tasks of its Runner have finished.
C3_TerminatedEndsStopped ==
    \A id \in Ids :
        (termProc[id] \in {"alive", "exit0"} /\ TerminationFinished(id))
            => session[id].Status = "stopped"

\* Every session created so far has been stopped and cleaned: the Runner is
\* stopped and forgotten, the process is gone, the PTY is closed, the session
\* holds no handle and its pipe files are removed.
AllCleaned ==
    \A id \in 1..(nextId - 1) :
        /\ runner[id].stopped = 1
        /\ os[id].proc # "alive"
        /\ ~os[id].ptyOpen
        /\ ~session[id].PTY /\ ~session[id].Process
        /\ SessionPipes(id) \cap files = {}

\* C9: Shutdown is idempotent.  Each session of the first call's loop is
\* marked stopped, cleaned and removed from the registry at once, with no
\* delayed removal armed; when the first call returns, registry and runner map
\* are empty, every session is cleaned and the pipes directory is empty;
\* a second call changes nothing; and neither the Manager's stop channel, nor
\* a Runner's stop channel, nor a PTY is ever closed twice.
C9_ShutdownIdempotent ==
    [][/\ (mpc.op = "shutdown" /\ mpc.step = "cleanup" /\ mpc' # mpc) =>
              /\ session'[mpc.id].Status = "stopped"
              /\ mpc.id \notin sessions'
              /\ timers' = timers
       /\ (mpc.op = "shutdown" /\ mpc' = Idle) =>
              /\ sessions' = {} /\ sessionRunners' = {} /\ files' = {}
              /\ AllCleaned'
       /\ (shutdownOnce /\ shutdownCalls' # shutdownCalls) =>
              UNCHANGED <<nextId, session, sessions, sessionRunners,
                          statusCallback, callbacks, mpc, timers, shutdownOnce,
                          stopChan, sweeps, termProc, runner, os, files,
                          outputLog, outputFile, ptyOut, panic>>
       /\ stopChan' <= 1
       /\ panic' = NoPanic
       /\ \A id \in Ids : runner'[id].stopChanCloses <= 1 /\ os'[id].ptyCloses <= 1
      ]_vars

\* Shutdown has returned twice, and the first call found a session to clean
\* that nothing had cleaned before.
C9_Witness ==
    /\ shutdownCalls = 2 /\ mpc = Idle
    /\ ret.op = "Shutdown"
    /\ \E id \in 1..(nextId - 1) :
         /\ termProc[id] = "none" /\ sweeps = 0
         /\ ~session[id].PTY
         /\ os[id].ptyCloses = 1

\* C11: a CreateSession that fails returns an error and retains nothing: no
\* process or PTY is made, and the registry, the runner map, the session
\* objects, the runners and the pipes directory are as before the call.
C11_FailedCreateRetainsNothing ==
    [][CreateSessionFail =>
          /\ ret' = Ret("CreateSession", 0, "error")
          /\ UNCHANGED <<sessions, sessionRunners, files, session, runner, os,
                         nextId, timers, callbacks>>]_vars

\* The last call of the Manager that returned is a CreateSession that failed
\* while an earlier session was registered with its pipes in the directory.
C11_Witness ==
    /\ ret = Ret("CreateSession", 0, "error") /\ mpc = Idle
    /\ nextId = MaxSessions + 1
    /\ sessions # {} /\ files # {}

\* C16: once an accepted TerminateSession has returned, and as long as its
\* delayed removal is pending, the session is in the registry with status
\* stopped; once the removal has run, the session is not in the registry.
\* (Stated for runs without a sweep visit and without Shutdown, which arm
\* removals or remove sessions of their own.)
C16_StoppedDuringGraceThenRemoved ==
    \A id \in Ids :
        (termProc[id] # "none" /\ mpc = Idle /\ sweeps = 0 /\ ~shutdownOnce) =>
            IF timers[id] > 0
            THEN id \in sessions /\ session[id].Status = "stopped"
            ELSE id \notin sessions

\* The sessions that were registered and have been removed from the registry.
Removed == {id \in Ids : id < nextId /\ id \notin sessions}

Created == {id \in Ids : id < nextId}

C20_ErrorMessageMeansError ==
    \A id \in sessions :
        session[id].ErrorMessage # "" => session[id].Status = "error"

\* C21: stopped and error are terminal: no step changes the status of a
\* session that is stopped or error and stays in the registry.
C21_StoppedAndErrorAreTerminal ==
    [][\A id \in sessions \cap sessions' :
          session[id].Status \in {"stopped", "error"} =>
              session'[id].Status = session[id].Status]_vars

C23_TasksFinishedWhenStopped ==
    [][\A id \in Ids :
          (mpc.op = "terminate" /\ mpc.id = id /\ session'[id].Status = "stopped"
             /\ session[id].Status # "stopped")
              => \A k \in {"pty", "inp", "mon", "err"} :
                     runner'[id][k] \in {"none", "done"}]_vars

\* The fatal error a pump sends after its last retry.
Fatal == {"pty bridge", "input bridge"}

\* One step of the PTY pump of `id` as the retry loop allows it: the counter
\* never passes the cap; a failure below the cap is retried and sends
\* nothing; the failure that reaches the cap ends the pump and sends one
\* fatal error; nothing else sends one; and a pump that has ended stays so.
PtyRetryStep(id) ==
    LET r == runner[id]  q == runner'[id] IN
    /\ q.retryCount <= maxRetries
    /\ (r.pty = "done") => (q.pty = "done" /\ q.retryCount = r.retryCount)
    /\ (r.pty = "read" /\ q.retryCount = r.retryCount + 1) =>
           IF q.retryCount < maxRetries
           THEN q.pty = "top" /\ q.errorChan = r.errorChan
           ELSE q.pty = "done" /\ q.errorChan = Append(r.errorChan, "pty bridge")
    /\ (q.errorChan = Append(r.errorChan, "pty bridge")) =>
           (r.retryCount = maxRetries - 1 /\ q.retryCount = maxRetries)

\* The same for the input pump, which counts in a variable of its own.
InputRetryStep(id) ==
    LET r == runner[id]  q == runner'[id] IN
    /\ q.inRetry <= maxRetries
    /\ (r.inp = "done") => (q.inp = "done" /\ q.inRetry = r.inRetry)
    /\ (r.inp = "top" /\ q.inRetry = r.inRetry + 1) =>
           IF q.inRetry < maxRetries
           THEN q.inp = "top" /\ q.errorChan = r.errorChan
           ELSE q.inp = "done" /\ q.errorChan = Append(r.errorChan, "input bridge")
    /\ (q.errorChan = Append(r.errorChan, "input bridge")) =>
           (r.inRetry = maxRetries - 1 /\ q.inRetry = maxRetries)

\* C24: each pump is retried at most maxRetries times and then sends exactly
\* one fatal error to the error channel; and a fatal error in the channel of
\* a Runner that is not stopped leads to the session being in status error
\* with a fatal error as its message, unless the Runner is stopped first.
C24_BoundedRetriesThenError ==
    /\ [][\A id \in Created : PtyRetryStep(id) /\ InputRetryStep(id)]_vars
    /\ \A id \in Ids :
           (runner[id].errorChan # <<>> /\ runner[id].stopped = 0)
               ~> \/ /\ session[id].Status = "error"
                     /\ session[id].ErrorMessage \in Fatal
                  \/ runner[id].stopped = 1

\* The PTY pump has failed maxRetries times, and the error task has put its
\* fatal error on the session of a Runner that is not stopped.
C24_Witness ==
    \E id \in Created :
        /\ runner[id].retryCount = maxRetries /\ runner[id].pty = "done"
        /\ runner[id].stopped = 0
        /\ session[id].Status = "error"
        /\ session[id].ErrorMessage = "pty bridge"

\* The elements of a sequence.
Range(seq) == {seq[i] : i \in DOMAIN seq}

\* The pump `k` of `id` (with fatal error `e`) has ended or is between two
\* attempts, and nothing of it is in the error channel or on the session.
EndsSilently(id, k, e) ==
    /\ runner[id][k] \in {"top", "done"}
    /\ e \notin Range(runner[id].errorChan)
    /\ session[id].ErrorMessage # e

\* C25: once the Runner is stopped while a pump is at the head of its retry
\* loop (between two attempts), that pump makes no further attempt and its
\* fatal error never reaches the error channel or the session.
C25_StopBetweenRetriesIsSilent ==
    \A id \in Ids :
        /\ [](runner[id].stopped = 1 /\ runner[id].pty = "top"
                 => []EndsSilently(id, "pty", "pty bridge"))
        /\ [](runner[id].stopped = 1 /\ runner[id].inp = "top"
                 => []EndsSilently(id, "inp", "input bridge"))

\* The PTY pump failed once or twice, the Runner was stopped during the
\* back-off, and the pump ended at the head of its loop.
C25_Witness ==
    \E id \in Created :
        /\ runner[id].stopped = 1
        /\ runner[id].pty = "done"
        /\ runner[id].retryCount \in 1..(maxRetries - 1)
        /\ runner[id].errorChan = <<>>

\* The status that belongs to the way the child process of `id` has exited.
ExitStatus(id) == IF os[id].proc = "exit0" THEN "stopped" ELSE "error"

ByRunnerTask(id) ==
    \/ runner[id].mon = "wait" /\ runner'[id].mon = "done"
    \/ Len(runner'[id].errorChan) < Len(runner[id].errorChan)

\* C29: every step that writes a session's record (status, error message,
\* handles) is a step of the Manager under its lock, never a step of the
\* Runner's monitor or error task.
C29_WritesUnderManagerLock ==
    [][\A id \in Ids :
          session'[id] # session[id] => ~ByRunnerTask(id)]_vars

\* The first n bytes of the PTY stream, in order.
Stream(n) == [i \in 1..n |-> i]

\* C30: the content of the output file is a prefix of the bytes the pump has
\* read from the PTY: byte i of the file is byte i of the stream, and the
\* file is never longer than what was read.
C30_LogIsPrefixOfStream ==
    \A id \in Ids :
        /\ Len(outputFile[id]) <= ptyOut[id]
        /\ outputFile[id] = Stream(Len(outputFile[id]))

\* What belongs to session `id`: its record, its Runner, its process and PTY,
\* its pipe files and its pending removals.
Owned(id) ==
    <<session[id], id \in sessions, id \in sessionRunners, runner[id], os[id],
      files \cap SessionPipes(id), timers[id]>>

C34_PipesAllOrNothing ==
    /\ []( /\ SessionPipes(nextId) \subseteq PipesAfter(nextId, files, "none")
           /\ \A fault \in {"mkfifo", "output"} :
                  PipesAfter(nextId, files, fault) = files \ SessionPipes(nextId) )
    /\ [][/\ CreateSessionFail => files' \cap SessionPipes(nextId) = {}
          /\ nextId' = nextId + 1 => SessionPipes(nextId) \subseteq files']_vars

\* A first CreateSession has failed and the directory is empty; the next one
\* can still be made.
C34_Witness ==
    /\ ret = Ret("CreateSession", 0, "error")
    /\ nextId = 1 /\ files = {} /\ sessions = {}

\* The error a pump's deferred function sends after a panic, by task.
PanicError == [pty |-> "pty panic", inp |-> "input panic"]

\* C35: a panic inside a pump ends that task as finished, sends one error
\* for it to the error channel and leaves the process and everything else
\* as it was; and such an error in the channel of a Runner that is not
\* stopped leads to the session being in status error with it as message,
\* unless the Runner is stopped first.
C35_PumpPanicBecomesError ==
    /\ [][\A id \in Ids :
             /\ bridgePTYOutputToFilePanic(id) =>
                    /\ runner'[id].pty = "done"
                    /\ runner'[id].errorChan = Append(runner[id].errorChan, PanicError.pty)
                    /\ panic' = NoPanic /\ session' = session
             /\ bridgeInputPipeToPTYPanic(id) =>
                    /\ runner'[id].inp = "done"
                    /\ runner'[id].errorChan = Append(runner[id].errorChan, PanicError.inp)
                    /\ panic' = NoPanic /\ session' = session]_vars
    /\ \A id \in Ids : \A k \in {"pty", "inp"} :
           (PanicError[k] \in Range(runner[id].errorChan) /\ runner[id].stopped = 0)
               ~> \/ /\ session[id].Status = "error"
                     /\ session[id].ErrorMessage = PanicError[k]
                  \/ runner[id].stopped = 1

\* The input pump panicked while waiting in its attempt; the task is
\* finished, and the error task has made the session error with that error
\* on a Runner that is not stopped.
C35_Witness ==
    \E id \in Created :
        /\ runner[id].inp = "done" /\ runner[id].stopped = 0
        /\ runner[id].errorChan = <<>>
        /\ session[id].Status = "error"
        /\ session[id].ErrorMessage = PanicError.inp

\* The session `id` has been terminated: its Runner was stopped and removed
\* from the Manager and its resources were cleaned, or its process exited
\* and the monitor stopped the Runner.
Terminated(id) ==
    /\ runner[id].stopped = 1
    /\ session[id].Status \in {"stopped", "error"}
    /\ mpc = Idle

\* C40: once a session has been terminated, each of the four tasks of its
\* Runner comes to its end.
C40_TasksEndAfterTermination ==
    \A id \in Ids :
        Terminated(id)
            ~> (\A k \in {"pty", "inp", "mon", "err"} : runner[id][k] = "done")

\* C12: what ListSessions returned is a snapshot: the records it returned
\* still read as they did when the call returned, whatever happened to the
\* sessions since.
C12_ListIsSnapshot ==
    \A id \in listed.refs : session[id] = listed.at[id]

----------------------------------------------------------------------------
(* Hub and clients *)

\* The bytes of `seq` that lie after position `size` of the output file.
After(seq, size) == SelectSeq(seq, LAMBDA b : b > size)

\* C4: a registered client is delivered every byte appended to the output
\* file after its registration, in order and once: what it has been delivered
\* is what the broadcasts have offered it of those bytes.
C4_EveryDeltaDeliveredOnce ==
    \A s \in DOMAIN clients : \A c \in clients[s] :
        sent[c].delivered = After(sent[c].handed, sent[c].regSize)

C8_NonPositiveResizeRejected ==
    \A c \in ClientIds :
        cpc[c].r = "sessionResize" =>
            client[c].event[1].rows > 0 /\ client[c].event[1].cols > 0

\* The number of messages `m` in the sequence `seq`.
Count(seq, m) == Cardinality({i \in 1..Len(seq) : seq[i] = m})

\* C13: every frame a read pump has read that is malformed or of a type the
\* server does not handle from a client has been answered with an error
\* message delivered to that client, the connection is still open and the
\* process runs.
C13_RejectedFramesAnswered ==
    \A c \in ClientIds :
        sent[c].rejected > 0 =>
            /\ Count(sent[c].notices, "error") = sent[c].rejected
            /\ client[c].conn
            /\ panic = NoPanic

\* The frame `f` with its session_id field left out.
NoSessionId(f) == [f EXCEPT !.session_id = 0]

C15_UnknownSessionRefused ==
    \A c \in ClientIds :
        sent[c].refused =>
            /\ Count(sent[c].notices, "error") = 1
            /\ client[c].send = "closed"
            /\ c \notin Registered
            /\ client[c].sessionID \notin DOMAIN clients
            /\ client[c].sessionID \notin DOMAIN outputWatchers
            /\ panic = NoPanic

\* C17: for the pings the read pump of a client has read, that client has
\* been delivered as many pongs, no client has been delivered a pong it did
\* not ask for, and the process runs.
C17_OnePongPerPing ==
    \A c \in ClientIds :
        /\ Count(sent[c].notices, "pong") = sent[c].pings
        /\ sent[c].pings > 0 => panic = NoPanic

\* The Hub's event loop is inside a handler that writes the client, watcher
\* or writer maps.
HubMutating ==
    \/ hub.pc = "shutdown"
    \/ hub.pc = "registering" /\ client[hub.arg].sessionID \in sessions

\* C28: while the Hub's event loop is inside a register or a shutdown, no
\* caller of Hub.Stop is inside shutdown() on the same maps, and the process
\* never ends on a map the runtime found iterated and written at once.
C28_MapAccessExclusive ==
    /\ ~(HubMutating /\ main.pc = "shutdown")
    /\ panic # Panic("Hub.registerClient", "concurrent map iteration and map write")

\* C31: a broadcast returns whatever the state of a client's queue: offering
\* a message to a client that cannot take it closes that client's queue and
\* never ends the broadcast, let alone the process.
C31_BroadcastNeverFails ==
    panic # Panic("Hub.broadcast", "send on closed channel")

\* Hub.Stop has been called and its shutdown() has begun.
HubShutDown == main.stops >= 1

\* C33: once the Hub has been shut down, every watcher that runs, every
\* write pump and every read pump that was started comes to its end.
C33_TasksEndAfterShutdown ==
    /\ \A w \in WatcherIds :
           (HubShutDown /\ w \in DOMAIN watchers)
               ~> (w \in DOMAIN watchers /\ watchers[w].pc = "done")
    /\ \A c \in ClientIds :
           /\ (HubShutDown /\ cpc[c].w # "none") ~> (cpc[c].w = "done")
           /\ (HubShutDown /\ cpc[c].r # "none") ~> (cpc[c].r = "done")

\* What the Hub holds for session `s`: its client set, the connections made
\* for it with what they were handed, its watchers with their offsets, its
\* cached writer, and its output file.
HubOwned(s) ==
    <<ClientsOf(s),
      [c \in {x \in ClientIds : client[x].sessionID = s} |->
          <<client[c], cpc[c], sent[c]>>],
      s \in DOMAIN outputWatchers,
      SelectSeq(watchers, LAMBDA x : x.sessionID = s),
      s \in inputWriters,
      outputLog[s], outputFile[s]>>

\* C36: every step is an operation on one session A: for every other
\* session B, what the Manager and the Hub hold for B is the same after the
\* step, and a step that ends the process leaves no other session behind.
C36_SessionsIndependent ==
    [][\E a \in Ids : \A b \in Ids \ {a} :
          /\ Owned(b)' = Owned(b)
          /\ HubOwned(b)' = HubOwned(b)
          /\ (panic = NoPanic /\ panic' # NoPanic) => b \notin sessions]_vars

\* A read pump has offered the Hub an event (the client to be unregistered,
\* input, or a resize) and waits for the Hub's loop to take it.
Submitted(c) == cpc[c].r \in {"unregister", "sessionInput", "sessionResize"}

\* C37: while the Hub has not been shut down, every event a read pump
\* offers to the Hub's loop is eventually taken by it, whatever the state of
\* another session's input FIFO.
C37_EventsEventuallyProcessed ==
    \A c \in ClientIds :
        (Submitted(c) /\ ~HubShutDown) ~> (~Submitted(c) \/ HubShutDown)

\* The ways the runtime ends a goroutine that closes a closed queue or sends
\* on one, at each place of the code that touches a client's queue.
QueuePanics ==
    {Panic(site, msg) :
        site \in {"Hub.registerClient", "Client.readPump", "Hub.broadcast",
                  "Hub.shutdown"},
        msg \in {"send on closed channel", "close of closed channel"}}

\* C38: a client's queue is closed at most once and nothing is sent on it
\* once it is closed: neither the Hub, a watcher or a read pump, nor the
\* connection's handler in Client.Run, ever closes a closed queue or offers a
\* message to one.
C38_QueueClosedOnce ==
    /\ panic \notin QueuePanics
    /\ \A c \in ClientIds : cpc[c].h # "panicked"

\* stopOutputWatcher has been called for watcher `w`: its stop channel is
\* closed.
WatcherStopped(w) == w \in DOMAIN watchers /\ watchers[w].stopChan > 0

\* C39: a watcher for which stopOutputWatcher has been called hands no
\* further output to any client, so a client never gets output from a
\* stopped watcher next to the running one.
C39_StoppedWatcherIsSilent ==
    [][\A w \in WatcherIds :
          (watch(w) /\ \E c \in ClientIds : sent'[c].handed # sent[c].handed)
              => ~WatcherStopped(w)]_vars

\* C10: the two calls of Hub.Stop close nothing twice, and when both have
\* returned the Hub has no client, no watcher and no input writer.
C10_HubStopIdempotent ==
    /\ hubStopChan <= 1
    /\ panic \notin {Panic("Hub.Stop", "close of closed channel"),
                      Panic("Hub.shutdown", "close of closed channel")}
    /\ \A w \in DOMAIN watchers : watchers[w].stopChan <= 1
    /\ (main.stops = hubStopCalls /\ main.pc = "idle") =>
           /\ Registered = {}
           /\ DOMAIN outputWatchers = {}
           /\ inputWriters = {}

====
